---------------------------- MODULE Spec2Model ----------------------------
(***************************************************************************)
(* Download-or-load cache of src/utilities.py.                             *)
(*                                                                         *)
(* Strings (URLs, file names) are sequences of characters; a multi-        *)
(* character token such as "e5.oper.an.pl." stands for a literal of the    *)
(* source that contains neither '/' nor ".gz".  File contents and HTTP     *)
(* bodies are sequences of byte values.  The cache directory is a function *)
(* from file name to content; the directory itself is the empty name.      *)
(***************************************************************************)
EXTENDS Integers, Sequences, FiniteSets, TLC

VARIABLES files, last, monthly, derived, procs, writer

vars == <<files, last, monthly, derived, procs, writer>>

(* derived records the latest call of a pure derivation (get_era5_url, the  *)
(* file name of open_or_download_gz); procs and writer belong to the        *)
(* processes that share the cache directory (see the end of the module).  *)
aux == <<derived, procs, writer>>

-----------------------------------------------------------------------------
(* Generic sequence helpers.                                               *)

RECURSIVE Flatten(_)
Flatten(ss) ==
    IF ss = <<>> THEN <<>> ELSE Head(ss) \o Flatten(Tail(ss))

RECURSIVE SplitOn(_, _)
(* str.split(sep) for a one-character separator: the list of the pieces    *)
(* between separators; always at least one piece.                          *)
SplitOn(s, sep) ==
    IF \A i \in 1..Len(s) : s[i] # sep
    THEN <<s>>
    ELSE LET i == CHOOSE j \in 1..Len(s) :
                      s[j] = sep /\ \A k \in 1..(j - 1) : s[k] # sep
         IN <<SubSeq(s, 1, i - 1)>> \o SplitOn(SubSeq(s, i + 1, Len(s)), sep)

StartsWith(s, p) ==
    Len(s) >= Len(p) /\ SubSeq(s, 1, Len(p)) = p

EndsWith(s, p) ==
    Len(s) >= Len(p) /\ SubSeq(s, Len(s) - Len(p) + 1, Len(s)) = p

RECURSIVE Replace(_, _)
(* str.replace(old, '') : every non-overlapping occurrence of old, scanned *)
(* left to right, is removed.                                              *)
Replace(s, old) ==
    IF s = <<>> THEN <<>>
    ELSE IF StartsWith(s, old) THEN Replace(SubSeq(s, Len(old) + 1, Len(s)), old)
    ELSE <<Head(s)>> \o Replace(Tail(s), old)

-----------------------------------------------------------------------------
(* Cache keys.                                                             *)

NoName == <<>>

GzSuffix == <<".", "g", "z">>

LastSegment(url) ==
    LET parts == SplitOn(url, "/") IN parts[Len(parts)]

(* local_name or url.split('/')[-1]  -- an empty override is falsy.        *)
TabFilename(url, local_name) ==
    IF local_name # NoName THEN local_name ELSE LastSegment(url)

(* local_name or url.split('/')[-1].replace('.gz', '')                     *)
GzFilename(url, local_name) ==
    IF local_name # NoName THEN local_name ELSE Replace(LastSegment(url), GzSuffix)

Era5Filename(url) == LastSegment(url)

(* CACHE_DIR / filename : the path of the empty name is CACHE_DIR itself,  *)
(* which line 20 created, so Path.exists() is true for it.                 *)
Exists(fs, filename) ==
    filename = <<>> \/ filename \in DOMAIN fs

WriteBytes(fs, filename, bytes) ==
    [k \in DOMAIN fs \cup {filename} |-> IF k = filename THEN bytes ELSE fs[k]]

-----------------------------------------------------------------------------
(* Results of a call.  Every result is a record of the same shape, so that *)
(* results of different kinds can be compared: tag names the kind (a table,*)
(* a dataset, or the exception raised), and the other fields hold the      *)
(* value for the kinds that have one.                                      *)

NoTable == [header |-> <<>>, rows |-> <<>>]

NoDs == [latitude |-> <<>>, longitude |-> <<>>, time |-> <<>>,
         hasLevel |-> FALSE, level |-> <<>>]

Raise(exc) == [tag |-> exc, table |-> NoTable, ds |-> NoDs]

ReturnTable(t) == [tag |-> "DataFrame", table |-> t, ds |-> NoDs]

ReturnDs(d) == [tag |-> "Dataset", table |-> NoTable, ds |-> d]

IsError(r) == r.tag \notin {"DataFrame", "Dataset"}

-----------------------------------------------------------------------------
(* gzip.decompress.  A gzip member is the two magic bytes 0x1f 0x8b        *)
(* followed by a compressed body; the body is modelled as run-length       *)
(* pairs <<count, byte>>.  Anything else is not a gzip file.               *)

GzipMagic == <<31, 139>>

RECURSIVE Expand(_)
Expand(body) ==
    IF Len(body) < 2 THEN <<>>
    ELSE [i \in 1..body[1] |-> body[2]] \o Expand(SubSeq(body, 3, Len(body)))

IsGzip(bytes) ==
    /\ StartsWith(bytes, GzipMagic)
    /\ (Len(bytes) - 2) % 2 = 0

GzipDecompress(bytes) == Expand(SubSeq(bytes, 3, Len(bytes)))

-----------------------------------------------------------------------------
(* pandas.read_csv(path, low_memory=False).  compression is left at its    *)
(* default 'infer': a path whose name ends in ".gz" is gunzipped before it *)
(* is parsed.  The text is decoded as UTF-8 (a byte >= 128 that starts no  *)
(* valid sequence raises UnicodeDecodeError), split into lines at '\n' and *)
(* into fields at ','; the first line is the header; a file without any    *)
(* line raises EmptyDataError.  The first data row may have any number of  *)
(* fields (extra leading fields become the index, missing ones are         *)
(* padded); a later row with more fields than the widest of the header and *)
(* the first data row raises ParserError, a shorter one is padded.         *)

NonEmptyLines(bytes) ==
    SelectSeq(SplitOn(bytes, 10), LAMBDA l : l # <<>>)

(* A parser that takes a file without any line for a table without        *)
(* columns.                                                                *)
ParseCsv_lenient(bytes) ==
    IF \E i \in 1..Len(bytes) : bytes[i] >= 128 THEN Raise("UnicodeDecodeError")
    ELSE LET lines == NonEmptyLines(bytes) IN
         IF lines = <<>> THEN ReturnTable([header |-> <<>>, rows |-> <<>>])
         ELSE LET recs == [i \in 1..Len(lines) |-> SplitOn(lines[i], 44)] IN
              ReturnTable([header |-> Head(recs), rows |-> Tail(recs)])

ParseCsv(bytes) ==
    IF \E i \in 1..Len(bytes) : bytes[i] >= 128 THEN Raise("UnicodeDecodeError")
    ELSE LET lines == NonEmptyLines(bytes) IN
         IF lines = <<>> THEN Raise("EmptyDataError")
         ELSE LET recs == [i \in 1..Len(lines) |-> SplitOn(lines[i], 44)]
                  width == IF Len(recs) >= 2 /\ Len(recs[2]) > Len(recs[1])
                           THEN Len(recs[2]) ELSE Len(recs[1])
              IN  IF \E i \in 3..Len(recs) : Len(recs[i]) > width
                  THEN Raise("ParserError")
                  ELSE ReturnTable([header |-> Head(recs), rows |-> Tail(recs)])

ReadCsv(fs, filename) ==
    IF filename = <<>> THEN Raise("IsADirectoryError")
    ELSE IF EndsWith(filename, GzSuffix)
         THEN IF IsGzip(fs[filename])
              THEN ParseCsv(GzipDecompress(fs[filename]))
              ELSE Raise("BadGzipFile")
         ELSE ParseCsv(fs[filename])

-----------------------------------------------------------------------------
(* The tabular fetchers.  Each handler is a function of the cache as the   *)
(* call finds it, its arguments, and the response the server gives if it   *)
(* is asked; it yields the cache as the call leaves it, what the call      *)
(* returns or raises, the resolved key, the branch taken and the number of *)
(* network requests issued.                                                *)

Outcome(fs, result, key, hit, net) ==
    [files |-> fs, result |-> result, key |-> key, hit |-> hit, net |-> net]

(* Response.raise_for_status(): 4xx and 5xx raise HTTPError.               *)
IsHttpError(resp) == resp.status >= 400 /\ resp.status < 600

(* open_or_download without the existence check of line 60.               *)
open_or_download_always_fetch(fs, url, local_name, resp) ==
    LET filename == TabFilename(url, local_name) IN
    IF IsHttpError(resp)
    THEN Outcome(fs, Raise("HTTPError"), filename, FALSE, 1)
    ELSE LET fs2 == WriteBytes(fs, filename, resp.content) IN
         Outcome(fs2, ReadCsv(fs2, filename), filename, FALSE, 1)

(* open_or_download with lines 66 and 67 exchanged: the body is written    *)
(* before the status is checked.                                           *)
open_or_download_write_first(fs, url, local_name, resp) ==
    LET filename == TabFilename(url, local_name) IN
    IF Exists(fs, filename)
    THEN Outcome(fs, ReadCsv(fs, filename), filename, TRUE, 0)
    ELSE LET fs2 == WriteBytes(fs, filename, resp.content) IN
         IF IsHttpError(resp)
         THEN Outcome(fs2, Raise("HTTPError"), filename, FALSE, 1)
         ELSE Outcome(fs2, ReadCsv(fs2, filename), filename, FALSE, 1)

(* open_or_download removing the file again when it cannot be parsed.      *)
open_or_download_discard_unparsed(fs, url, local_name, resp) ==
    LET filename == TabFilename(url, local_name) IN
    IF Exists(fs, filename)
    THEN Outcome(fs, ReadCsv(fs, filename), filename, TRUE, 0)
    ELSE IF IsHttpError(resp)
         THEN Outcome(fs, Raise("HTTPError"), filename, FALSE, 1)
         ELSE LET fs2 == WriteBytes(fs, filename, resp.content)
                  r == ReadCsv(fs2, filename)
              IN  Outcome(IF IsError(r) THEN fs ELSE fs2, r, filename, FALSE, 1)

open_or_download(fs, url, local_name, resp) ==
    LET filename == TabFilename(url, local_name) IN
    IF Exists(fs, filename)
    THEN Outcome(fs, ReadCsv(fs, filename), filename, TRUE, 0)
    ELSE IF IsHttpError(resp)
         THEN Outcome(fs, Raise("HTTPError"), filename, FALSE, 1)
         ELSE LET fs2 == WriteBytes(fs, filename, resp.content) IN
              Outcome(fs2, ReadCsv(fs2, filename), filename, FALSE, 1)

(* open_or_download_gz writing under the URL's own last segment instead   *)
(* of the resolved file name.                                              *)
open_or_download_gz_raw_name(fs, url, local_name, resp) ==
    LET filename == GzFilename(url, local_name) IN
    IF Exists(fs, filename)
    THEN Outcome(fs, ReadCsv(fs, filename), filename, TRUE, 0)
    ELSE IF IsHttpError(resp)
         THEN Outcome(fs, Raise("HTTPError"), filename, FALSE, 1)
         ELSE IF ~IsGzip(resp.content)
              THEN Outcome(fs, Raise("BadGzipFile"), filename, FALSE, 1)
              ELSE LET fs2 == WriteBytes(fs, LastSegment(url),
                                         GzipDecompress(resp.content))
                   IN Outcome(fs2,
                              IF Exists(fs2, filename) THEN ReadCsv(fs2, filename)
                              ELSE Raise("FileNotFoundError"),
                              filename, FALSE, 1)

open_or_download_gz(fs, url, local_name, resp) ==
    LET filename == GzFilename(url, local_name) IN
    IF Exists(fs, filename)
    THEN Outcome(fs, ReadCsv(fs, filename), filename, TRUE, 0)
    ELSE IF IsHttpError(resp)
         THEN Outcome(fs, Raise("HTTPError"), filename, FALSE, 1)
         ELSE IF ~IsGzip(resp.content)
              THEN Outcome(fs, Raise("BadGzipFile"), filename, FALSE, 1)
              ELSE LET fs2 == WriteBytes(fs, filename, GzipDecompress(resp.content)) IN
                   Outcome(fs2, ReadCsv(fs2, filename), filename, FALSE, 1)

-----------------------------------------------------------------------------
(* Gridded datasets.  A dataset is its coordinate axes: the value at a     *)
(* grid point is what the archive holds at those coordinates, so a subset  *)
(* is determined by the coordinates it keeps.  time is in hours since the  *)
(* start of the month.                                                     *)

IsIncreasing(axis) ==
    \A i \in 1..Len(axis) : \A j \in 1..Len(axis) : i < j => axis[i] < axis[j]

IsDecreasing(axis) ==
    \A i \in 1..Len(axis) : \A j \in 1..Len(axis) : i < j => axis[i] > axis[j]

(* Dataset.sel(dim=slice(start, stop)) on a monotonic index: the labels    *)
(* from start to stop, both ends included, in the direction of the index.  *)
SelSlice(axis, start, stop) ==
    IF IsIncreasing(axis)
    THEN SelectSeq(axis, LAMBDA x : start <= x /\ x <= stop)
    ELSE SelectSeq(axis, LAMBDA x : start >= x /\ x >= stop)

(* ds.time.dt.hour == hour, used as a boolean mask.                        *)
SelHour(axis, hour) ==
    SelectSeq(axis, LAMBDA t : t % 24 = hour)

(* Subset with the latitude slice given as (lat_min, lat_max).             *)
Subset_ascending(ds, lat_min, lat_max, lon_min, lon_max, hour) ==
    [ds EXCEPT !.latitude = SelSlice(ds.latitude, lat_min, lat_max),
               !.longitude = SelSlice(ds.longitude, lon_min, lon_max),
               !.time = SelHour(ds.time, hour)]

Subset(ds, lat_min, lat_max, lon_min, lon_max, hour) ==
    [ds EXCEPT !.latitude = SelSlice(ds.latitude, lat_max, lat_min),
               !.longitude = SelSlice(ds.longitude, lon_min, lon_max),
               !.time = SelHour(ds.time, hour)]

(* Dataset.to_netcdf: the HDF5 signature byte 0x89, then each axis as its  *)
(* length followed by its labels, the level axis preceded by a flag that   *)
(* tells whether the dataset has that dimension.                           *)
NcMagic == <<137>>

ToNetcdf(ds) ==
    NcMagic \o <<Len(ds.latitude)>> \o ds.latitude
            \o <<Len(ds.longitude)>> \o ds.longitude
            \o <<Len(ds.time)>> \o ds.time
            \o <<IF ds.hasLevel THEN 1 ELSE 0>>
            \o <<Len(ds.level)>> \o ds.level

(* The axis that starts at position p of the file, and where it ends.      *)
AxisAt(bytes, p) == SubSeq(bytes, p + 1, p + bytes[p])

AfterAxis(bytes, p) == p + bytes[p] + 1

(* xarray.open_dataset on a cached path.                                   *)
OpenDataset(fs, filename) ==
    IF filename = <<>> THEN Raise("IsADirectoryError")
    ELSE LET bytes == fs[filename] IN
         IF ~StartsWith(bytes, NcMagic) THEN Raise("ValueError")
         ELSE LET p1 == 2
                  p2 == AfterAxis(bytes, p1)
                  p3 == AfterAxis(bytes, p2)
                  pf == AfterAxis(bytes, p3)
              IN ReturnDs([latitude |-> AxisAt(bytes, p1),
                           longitude |-> AxisAt(bytes, p2),
                           time |-> AxisAt(bytes, p3),
                           hasLevel |-> bytes[pf] = 1,
                           level |-> AxisAt(bytes, pf + 1)])

(* open_or_download_era5 applying the subsetting to a cached file too.     *)
open_or_download_era5_resubset(fs, url, lat_min, lat_max, lon_min, lon_max, hour, remote) ==
    LET filename == Era5Filename(url) IN
    IF Exists(fs, filename)
    THEN LET r == OpenDataset(fs, filename) IN
         Outcome(fs,
                 IF IsError(r) THEN r
                 ELSE ReturnDs(Subset(r.ds, lat_min, lat_max, lon_min, lon_max, hour)),
                 filename, TRUE, 0)
    ELSE IF ~remote.up
         THEN Outcome(fs, Raise("OSError"), filename, FALSE, 1)
         ELSE LET ds == Subset(remote.ds, lat_min, lat_max, lon_min, lon_max, hour) IN
              Outcome(WriteBytes(fs, filename, ToNetcdf(ds)), ReturnDs(ds),
                      filename, FALSE, 1)

(* open_or_download_era5 refusing a subset without elements.               *)
open_or_download_era5_checked(fs, url, lat_min, lat_max, lon_min, lon_max, hour, remote) ==
    LET filename == Era5Filename(url) IN
    IF Exists(fs, filename)
    THEN Outcome(fs, OpenDataset(fs, filename), filename, TRUE, 0)
    ELSE IF ~remote.up
         THEN Outcome(fs, Raise("OSError"), filename, FALSE, 1)
         ELSE LET ds == Subset(remote.ds, lat_min, lat_max, lon_min, lon_max, hour) IN
              IF ds.latitude = <<>> \/ ds.longitude = <<>> \/ ds.time = <<>>
              THEN Outcome(fs, Raise("SubsetError"), filename, FALSE, 1)
              ELSE Outcome(WriteBytes(fs, filename, ToNetcdf(ds)), ReturnDs(ds),
                           filename, FALSE, 1)

(* remote.up tells whether xr.open_dataset(url) succeeds; remote.ds is the *)
(* dataset the server holds under the URL.                                 *)
open_or_download_era5(fs, url, lat_min, lat_max, lon_min, lon_max, hour, remote) ==
    LET filename == Era5Filename(url) IN
    IF Exists(fs, filename)
    THEN Outcome(fs, OpenDataset(fs, filename), filename, TRUE, 0)
    ELSE IF ~remote.up
         THEN Outcome(fs, Raise("OSError"), filename, FALSE, 1)
         ELSE LET ds == Subset(remote.ds, lat_min, lat_max, lon_min, lon_max, hour) IN
              Outcome(WriteBytes(fs, filename, ToNetcdf(ds)), ReturnDs(ds),
                      filename, FALSE, 1)

-----------------------------------------------------------------------------
(* The world the calls are made in: a few URLs on two servers, what each   *)
(* serves, and the arguments callers pass.                                 *)

ServerS == <<"h", ":", "/", "/", "s">>

ServerT == <<"h", ":", "/", "/", "t">>

UrlA == ServerS \o <<"/", "a">>

UrlAgz == ServerS \o <<"/", "a", ".", "g", "z">>

UrlDir == ServerS \o <<"/">>

UrlNcS == ServerS \o <<"/", "x", ".nc">>

UrlNcT == ServerT \o <<"/", "x", ".nc">>

(* "x,y\n1,2\n"                                                            *)
CsvA == <<120, 44, 121, 10, 49, 44, 50, 10>>

(* gzip of "x\n33"                                                         *)
GzB == GzipMagic \o <<1, 120, 1, 10, 2, 51>>

(* The body served for the directory: "d\n1\n2,3\n", whose second data     *)
(* row has more fields than the rows before it.                            *)
CsvD == <<100, 10, 49, 10, 50, 44, 51, 10>>

TabUrls == {UrlA, UrlAgz, UrlDir}

LocalNames == {NoName, <<"a">>, <<"a", ".", "g", "z">>}

Content(url) ==
    IF url = UrlA THEN CsvA
    ELSE IF url = UrlAgz THEN GzB
    ELSE CsvD

(* What the server may answer: the resource, an error status, and for the *)
(* directory also a 200 with an empty body.                                *)
Responses(url) ==
    {[status |-> 200, content |-> Content(url)],
     [status |-> 404, content |-> <<>>],
     [status |-> 500, content |-> <<>>]}
    \cup (IF url = UrlDir THEN {[status |-> 200, content |-> <<>>]} ELSE {})

NoResp == [status |-> 0, content |-> <<>>]

(* The ERA5 grid convention: latitude descending, longitude ascending.     *)
NLat == 4

NLon == 4

GridLat == [i \in 1..NLat |-> 39 - i]

GridLon == [i \in 1..NLon |-> 257 + i]

DsS == [latitude |-> GridLat, longitude |-> GridLon,
        time |-> <<0, 6, 18, 42>>, hasLevel |-> FALSE, level |-> <<>>]

(* Another server's copy of the file, with latitude stored ascending.      *)
DsT == [DsS EXCEPT !.latitude = [i \in 1..NLat |-> 34 + i]]

Era5Urls == {UrlNcS, UrlNcT, UrlA}

Box(lat_min, lat_max, lon_min, lon_max, hour) ==
    [lat_min |-> lat_min, lat_max |-> lat_max,
     lon_min |-> lon_min, lon_max |-> lon_max, hour |-> hour]

NoBox == Box(0, 0, 0, 0, 0)

Boxes == {Box(35, 37, 258, 260, 18), Box(36, 37, 259, 260, 6)}

-----------------------------------------------------------------------------
(* State.  files is the cache directory.  last describes the most recent   *)
(* fetch call: its entry point and arguments, the response or remote       *)
(* dataset it was (or would have been) given, its outcome, n the parity of *)
(* the number of calls so far, and rep, whether the call before it was a   *)
(* call of the same entry point with the same arguments.                   *)

NoCall ==
    [fn |-> "none", url |-> <<>>, local_name |-> NoName, box |-> NoBox,
     resp |-> NoResp, key |-> <<>>, hit |-> FALSE, net |-> 0,
     result |-> Raise("none"), n |-> 0, rep |-> FALSE]

SameRequest(c, fn, url, local_name, box) ==
    c.fn = fn /\ c.url = url /\ c.local_name = local_name /\ c.box = box

Call(fn, url, local_name, box, resp, out) ==
    [fn |-> fn, url |-> url, local_name |-> local_name, box |-> box,
     resp |-> resp, key |-> out.key, hit |-> out.hit, net |-> out.net,
     result |-> out.result, n |-> 1 - last.n,
     rep |-> SameRequest(last, fn, url, local_name, box)]

NoSeries == <<>>

Idle ==
    [pc |-> "idle", year |-> 0, month |-> 0, level |-> 0, day |-> 0,
     daily_data |-> <<>>, fetched |-> <<>>,
     result |-> [tag |-> "none", series |-> NoSeries]]

NoDerived == [fn |-> "none", args |-> <<>>, tag |-> "none", value |-> <<>>]

Procs == {1, 2}

NoProc ==
    [pc |-> "idle", fn |-> "none", url |-> <<>>, key |-> <<>>,
     hit |-> FALSE, net |-> 0, body |-> <<>>, wrote |-> FALSE,
     result |-> Raise("none")]

Init ==
    /\ files = <<>>
    /\ last = NoCall
    /\ monthly = Idle
    /\ derived = NoDerived
    /\ procs = [p \in Procs |-> NoProc]
    /\ writer = <<>>

-----------------------------------------------------------------------------
(* Dates and the daily file names of the monthly aggregator.               *)

Digits == <<"0", "1", "2", "3", "4", "5", "6", "7", "8", "9">>

DigitVal(c) == (CHOOSE i \in 1..10 : Digits[i] = c) - 1

RECURSIVE Str(_)
(* f"{n}" for n >= 0                                                       *)
Str(n) ==
    IF n < 10 THEN <<Digits[n + 1]>>
    ELSE Str(n \div 10) \o <<Digits[(n % 10) + 1]>>

(* f"{n:02d}" for n >= 0                                                   *)
Fmt02(n) ==
    IF n < 10 THEN <<"0", Digits[n + 1]>> ELSE Str(n)

IsLeap(year) ==
    year % 4 = 0 /\ (year % 100 # 0 \/ year % 400 = 0)

MDays == <<31, 28, 31, 30, 31, 30, 31, 31, 30, 31, 30, 31>>

(* A calendar that takes every fourth year for a leap year.                *)
LastDay_julian(year, month) ==
    MDays[month] + (IF month = 2 /\ year % 4 = 0 THEN 1 ELSE 0)

(* calendar.monthrange(year, month)[1], for month in 1..12                 *)
LastDay(year, month) ==
    MDays[month] + (IF month = 2 /\ IsLeap(year) THEN 1 ELSE 0)

BaseUrl == ServerS \o <<"/", "pl">>

FileCode == "128_131_u"

GridCode == "ll025uv"

DailyFilename(file_code, grid_code, year, month, day) ==
    LET yyyymmdd == Str(year) \o Fmt02(month) \o Fmt02(day) IN
    <<"e5.oper.an.pl.", file_code, ".", grid_code, ".">>
        \o yyyymmdd \o <<"00_">> \o yyyymmdd \o <<"23.nc">>

DailyUrl(base_url, file_code, grid_code, year, month, day) ==
    base_url \o <<"/">> \o Str(year) \o Fmt02(month) \o <<"/">>
        \o DailyFilename(file_code, grid_code, year, month, day)

(* What the archive holds under a daily file name: the hours 0, 6 and 18   *)
(* of the day the name ends in, on the ERA5 grid, at two pressure levels;  *)
(* the files of 2023 hold the variable on a single surface, without a      *)
(* level dimension.                                                        *)
IsDailyName(filename) ==
    Len(filename) > 3 /\ filename[1] = "e5.oper.an.pl."

DayOfName(filename) ==
    10 * DigitVal(filename[Len(filename) - 2]) + DigitVal(filename[Len(filename) - 1])

DayDs(day) ==
    [latitude |-> GridLat, longitude |-> GridLon,
     time |-> <<24 * (day - 1), 24 * (day - 1) + 6, 24 * (day - 1) + 18>>,
     hasLevel |-> TRUE, level |-> <<500, 700>>]

YearOfName(filename) ==
    1000 * DigitVal(filename[6]) + 100 * DigitVal(filename[7])
        + 10 * DigitVal(filename[8]) + DigitVal(filename[9])

RemoteDs(url) ==
    IF url = UrlNcS THEN DsS
    ELSE IF url = UrlNcT THEN DsT
    ELSE IF IsDailyName(LastSegment(url))
         THEN LET d == DayDs(DayOfName(LastSegment(url))) IN
              IF YearOfName(LastSegment(url)) = 2023
              THEN [d EXCEPT !.hasLevel = FALSE, !.level = <<>>]
              ELSE d
    ELSE NoDs

IsDatasetUrl(url) ==
    url \in {UrlNcS, UrlNcT} \/ IsDailyName(LastSegment(url))

(* The remote open fails (server down, or no dataset under the URL), or    *)
(* yields the dataset the server holds.                                    *)
Remotes(url) ==
    {[up |-> FALSE, ds |-> NoDs]}
        \cup (IF IsDatasetUrl(url) THEN {[up |-> TRUE, ds |-> RemoteDs(url)]} ELSE {})

-----------------------------------------------------------------------------
(* Calls of the three fetch entry points.  Calls are made one at a time,   *)
(* and none while a monthly aggregation is running (the program is         *)
(* single-threaded).                                                       *)

OpenOrDownload ==
    \E url \in TabUrls, local_name \in LocalNames :
      \E resp \in Responses(url) :
        LET out == open_or_download(files, url, local_name, resp) IN
        /\ monthly.pc # "loop"
        /\ files' = out.files
        /\ last' = Call("open_or_download", url, local_name, NoBox,
                        IF out.net = 1 THEN resp ELSE NoResp, out)
        /\ UNCHANGED <<monthly, aux>>

OpenOrDownloadGz ==
    \E url \in TabUrls, local_name \in LocalNames :
      \E resp \in Responses(url) :
        LET out == open_or_download_gz(files, url, local_name, resp) IN
        /\ monthly.pc # "loop"
        /\ files' = out.files
        /\ last' = Call("open_or_download_gz", url, local_name, NoBox,
                        IF out.net = 1 THEN resp ELSE NoResp, out)
        /\ UNCHANGED <<monthly, aux>>

OpenOrDownloadEra5 ==
    \E url \in Era5Urls, box \in Boxes :
      \E remote \in Remotes(url) :
        LET out == open_or_download_era5(files, url, box.lat_min, box.lat_max,
                                         box.lon_min, box.lon_max, box.hour, remote)
        IN
        /\ monthly.pc # "loop"
        /\ files' = out.files
        /\ last' = Call("open_or_download_era5", url, NoName, box, NoResp, out)
        /\ UNCHANGED <<monthly, aux>>

Next ==
    \/ OpenOrDownload
    \/ OpenOrDownloadGz
    \/ OpenOrDownloadEra5

Spec == Init /\ [][Next]_vars

-----------------------------------------------------------------------------
(* open_or_download_era5_pl_monthly, one loop iteration per step.          *)

MonthlyBox == Box(36, 37, 258, 259, 18)

MonthlyYears == {2023, 2024}

MonthlyMonths == {2}

MonthlyLevels == {500, 650}

Abs(x) == IF x < 0 THEN -x ELSE x

(* DataArray.sel(level=level, method='nearest'): the label at the least    *)
(* distance; of two labels at the same distance, the larger.               *)
SelNearest(axis, level) ==
    CHOOSE x \in {axis[i] : i \in 1..Len(axis)} :
        \A i \in 1..Len(axis) :
            \/ Abs(x - level) < Abs(axis[i] - level)
            \/ Abs(x - level) = Abs(axis[i] - level) /\ x >= axis[i]

(* The variable at the first level of the file, whatever was asked for.    *)
VarAtLevel_first(ds, level) ==
    [time |-> ds.time, latitude |-> ds.latitude, longitude |-> ds.longitude,
     level |-> IF ds.hasLevel THEN <<ds.level[1]>> ELSE <<>>]

(* lines 253-256: the variable at the nearest level, or as it is.  The     *)
(* slice has no level dimension: level holds the scalar coordinate of the  *)
(* selected level, or nothing.                                             *)
VarAtLevel(ds, level) ==
    [time |-> ds.time, latitude |-> ds.latitude, longitude |-> ds.longitude,
     level |-> IF ds.hasLevel THEN <<SelNearest(ds.level, level)>> ELSE <<>>]

(* The time steps of one slice, each with the coordinates of its field.    *)
Slabs(slice) ==
    [i \in 1..Len(slice.time) |->
        [time |-> slice.time[i], latitude |-> slice.latitude,
         longitude |-> slice.longitude, level |-> slice.level]]

RECURSIVE Reverse(_)
Reverse(seq) ==
    IF seq = <<>> THEN <<>> ELSE Reverse(Tail(seq)) \o <<Head(seq)>>

(* Concatenation in descending day order.                                  *)
Concat_reversed(daily_data) ==
    Flatten([i \in 1..Len(daily_data) |-> Slabs(Reverse(daily_data)[i])])

(* xr.concat(daily_data, dim='time'): the slices' time steps, one slice    *)
(* after the other in list order.                                          *)
Concat(daily_data) ==
    Flatten([i \in 1..Len(daily_data) |-> Slabs(daily_data[i])])

MonthlyStart ==
    \E year \in MonthlyYears, month \in MonthlyMonths, level \in MonthlyLevels :
        /\ monthly.pc # "loop"
        /\ monthly' = [Idle EXCEPT !.pc = "loop", !.year = year, !.month = month,
                                   !.level = level, !.day = 1]
        /\ UNCHANGED <<files, last, aux>>

(* A loop that catches the exception of a day's fetch and goes on to the   *)
(* next day.                                                               *)
AfterFetch_skip(m, url, out) ==
    IF IsError(out.result)
    THEN [m EXCEPT !.day = @ + 1, !.fetched = Append(@, url)]
    ELSE [m EXCEPT !.day = @ + 1,
                   !.fetched = Append(@, url),
                   !.daily_data = Append(@, VarAtLevel(out.result.ds, m.level))]

(* lines 252-257 and the propagation of an exception of the fetch: the    *)
(* aggregation as the fetch of url leaves it.                              *)
AfterFetch(m, url, out) ==
    IF IsError(out.result)
    THEN [m EXCEPT !.pc = "done",
                   !.fetched = Append(@, url),
                   !.result = [tag |-> out.result.tag, series |-> NoSeries]]
    ELSE [m EXCEPT !.day = @ + 1,
                   !.fetched = Append(@, url),
                   !.daily_data = Append(@, VarAtLevel(out.result.ds, m.level))]

(* lines 247-257 for day = monthly.day.                                    *)
MonthlyDay ==
    /\ monthly.pc = "loop"
    /\ monthly.day <= LastDay(monthly.year, monthly.month)
    /\ LET url == DailyUrl(BaseUrl, FileCode, GridCode,
                           monthly.year, monthly.month, monthly.day)
           box == MonthlyBox
       IN \E remote \in Remotes(url) :
           LET out == open_or_download_era5(files, url, box.lat_min, box.lat_max,
                                            box.lon_min, box.lon_max, box.hour, remote)
           IN
           /\ files' = out.files
           /\ last' = Call("open_or_download_era5", url, NoName, box, NoResp, out)
           /\ monthly' = AfterFetch(monthly, url, out)
           /\ UNCHANGED aux

(* lines 259-262, once the loop has run through.                           *)
MonthlyReturn ==
    /\ monthly.pc = "loop"
    /\ monthly.day > LastDay(monthly.year, monthly.month)
    /\ monthly' =
         [monthly EXCEPT !.pc = "done",
                         !.result =
                             IF monthly.daily_data = <<>>
                             THEN [tag |-> "ValueError", series |-> NoSeries]
                             ELSE [tag |-> "DataArray",
                                   series |-> Concat(monthly.daily_data)]]
    /\ UNCHANGED <<files, last, aux>>

NextMonthly ==
    \/ MonthlyStart
    \/ MonthlyDay
    \/ MonthlyReturn

SpecMonthly == Init /\ [][NextMonthly]_vars

-----------------------------------------------------------------------------
(* Properties.                                                             *)

TabFns == {"open_or_download", "open_or_download_gz"}

FetchFns == TabFns \cup {"open_or_download_era5"}

(* The step is a fetch call (it, and nothing else, flips last.n).          *)
IsCallStep == last'.n # last.n

(* The names whose entry differs between two states of the cache.          *)
Changed(f, g) ==
    {k \in DOMAIN f \cup DOMAIN g :
        \/ k \notin DOMAIN f
        \/ k \notin DOMAIN g
        \/ f[k] # g[k]}

(* What a hit of entry point fn returns for a key: the cached file as the  *)
(* entry point reads it.                                                   *)
ReadAs(fn, fs, key) ==
    IF fn \in TabFns THEN ReadCsv(fs, key) ELSE OpenDataset(fs, key)

(* C1, as stated: whenever an entry point is called twice in sequence with *)
(* the same arguments, the two calls issue at most one network request in  *)
(* total and the second call's outcome equals the first's.                 *)
C1_TwiceAtMostOneRequest ==
    [][(IsCallStep /\ last'.rep)
          => (last.net + last'.net <= 1 /\ last'.result = last.result)]_vars

(* C1, amended: whenever an entry point is called twice in sequence with   *)
(* the same arguments and the first call left a file under its key (it was *)
(* a hit, or its download succeeded), the two calls issue at most          *)
(* one network request in total and the second call's outcome equals the   *)
(* first's; and no call issues more than one request.                      *)
C1_TwiceAfterStoredAtMostOneRequest ==
    [][IsCallStep =>
         /\ last'.net <= 1
         /\ (last'.rep /\ Exists(files, last.key))
               => (last.net + last'.net <= 1 /\ last'.result = last.result)]_vars

(* A repeated call that was served from the file its first call stored.    *)
C1_Witness ==
    /\ last.rep
    /\ last.hit
    /\ last.key # <<>>
    /\ ~IsError(last.result)

(* C2: a call that hits is served the cached file under its file name, as  *)
(* its entry point reads it, whatever its URL and bounds; a hit of         *)
(* open_or_download_era5 returns the file's dataset without subsetting it  *)
(* again and without a remote open.                                        *)
C2_HitServedByFilenameOnly ==
    (last.fn \in FetchFns /\ last.hit)
       => /\ last.result = ReadAs(last.fn, files, last.key)
          /\ last.net = 0

(* A gridded hit whose bounds would have cut the cached dataset further.   *)
C2_Witness ==
    /\ last.fn = "open_or_download_era5"
    /\ last.hit
    /\ last.result.tag = "Dataset"
    /\ Subset(last.result.ds, last.box.lat_min, last.box.lat_max,
              last.box.lon_min, last.box.lon_max, last.box.hour) # last.result.ds

(* C8: a call of a tabular fetcher that ends in the HTTP error was given   *)
(* an error status, changed nothing in the cache and left its key absent;  *)
(* the next call for that key is a miss that issues a new request.         *)
C8_RemoteFailureLeavesCache ==
    [][IsCallStep =>
         /\ (last'.fn \in TabFns /\ last'.result.tag = "HTTPError")
               => /\ IsHttpError(last'.resp)
                  /\ files' = files
                  /\ ~Exists(files', last'.key)
                  /\ last'.net = 1
         /\ (last'.fn \in TabFns /\ IsHttpError(last'.resp))
               => last'.result.tag = "HTTPError"
         /\ (last.fn \in TabFns /\ last.result.tag = "HTTPError"
             /\ last'.fn \in TabFns /\ last'.key = last.key)
               => (~last'.hit /\ last'.net = 1)]_vars

(* A failed download retried: the retry went to the network again.         *)
C8_Witness ==
    /\ last.fn \in TabFns
    /\ last.rep
    /\ last.result.tag = "HTTPError"
    /\ files # <<>>

(* C10: a call changes at most the entry under its own key, and only when  *)
(* the key was absent; a hit issues no request and changes nothing.        *)
C10_WriteFootprint ==
    [][IsCallStep =>
         /\ last'.hit = Exists(files, last'.key)
         /\ Changed(files, files') \subseteq {last'.key}
         /\ Cardinality(Changed(files, files')) <= 1
         /\ last'.hit => (last'.net = 0 /\ files' = files)]_vars

(* A miss that wrote its file next to files of earlier calls.              *)
C10_Witness ==
    /\ ~last.hit
    /\ last.key \in DOMAIN files
    /\ Cardinality(DOMAIN files) >= 3

(* C3, as stated: a miss of open_or_download_gz on a gzip payload stores   *)
(* the decompressed bytes and returns the table parsed from them, and a    *)
(* hit returns the table parsed from the cached bytes as they are.         *)
C3_DecompressOnMissOnly ==
    /\ (last.fn = "open_or_download_gz" /\ ~last.hit
        /\ last.resp.status = 200 /\ IsGzip(last.resp.content))
          => /\ last.key \in DOMAIN files
             /\ files[last.key] = GzipDecompress(last.resp.content)
             /\ last.result = ParseCsv(GzipDecompress(last.resp.content))
    /\ (last.fn = "open_or_download_gz" /\ last.hit /\ last.key \in DOMAIN files)
          => last.result = ParseCsv(files[last.key])

(* C4: a miss of open_or_download_era5 that returns a dataset returns the  *)
(* remote dataset cut to the latitudes in [lat_min, lat_max] (for a source *)
(* stored with latitude descending), the longitudes in [lon_min, lon_max]  *)
(* and the time steps at the requested hour, with nothing else changed,    *)
(* and the file stored under its key holds that same subset.               *)
C4_SubsetOnMiss ==
    (last.fn = "open_or_download_era5" /\ ~last.hit /\ last.result.tag = "Dataset")
       => LET src == RemoteDs(last.url)
              b == last.box
              d == last.result.ds
          IN /\ IsDecreasing(src.latitude)
                   => d.latitude =
                        SelectSeq(src.latitude,
                                  LAMBDA x : b.lat_min <= x /\ x <= b.lat_max)
             /\ d.longitude =
                  SelectSeq(src.longitude,
                            LAMBDA x : b.lon_min <= x /\ x <= b.lon_max)
             /\ d.time = SelectSeq(src.time, LAMBDA t : t % 24 = b.hour)
             /\ d.hasLevel = src.hasLevel
             /\ d.level = src.level
             /\ last.key \in DOMAIN files
             /\ OpenDataset(files, last.key) = last.result

(* A gridded miss on the descending source that cut every axis and kept    *)
(* something of each.                                                      *)
C4_Witness ==
    /\ last.fn = "open_or_download_era5"
    /\ ~last.hit
    /\ last.result.tag = "Dataset"
    /\ IsDecreasing(RemoteDs(last.url).latitude)
    /\ \A axis \in {"latitude", "longitude", "time"} :
          /\ last.result.ds[axis] # <<>>
          /\ Len(last.result.ds[axis]) < Len(RemoteDs(last.url)[axis])

(* C9, as stated: open_or_download stores the response body as it is, and  *)
(* the table it returns, on the miss and on every later hit, is the table  *)
(* parsed from the stored bytes.                                           *)
C9_RoundTrip ==
    (last.fn = "open_or_download" /\ last.key \in DOMAIN files)
       => /\ ~last.hit => files[last.key] = last.resp.content
          /\ last.result = ParseCsv(files[last.key])

-----------------------------------------------------------------------------
(* Properties of the monthly aggregator.                                   *)

DayUrl(m, day) ==
    DailyUrl(BaseUrl, FileCode, GridCode, m.year, m.month, day)

DayFilename(m, day) ==
    DailyFilename(FileCode, GridCode, m.year, m.month, day)

(* C5: the fetches of an aggregation are those of days 1, 2, ... in that   *)
(* order, one per day and never more than the month has days (28 in        *)
(* February 2023, 29 in February 2024); the series returned is the days'   *)
(* slices, day 1 to the last day, one after the other, and its time axis   *)
(* is strictly increasing.                                                 *)
C5_AggregationOrder ==
    LET N == IF monthly.year = 2024 THEN 29 ELSE 28 IN
    /\ monthly.pc # "idle"
          => /\ Len(monthly.fetched) <= N
             /\ \A i \in 1..Len(monthly.fetched) :
                   monthly.fetched[i] = DayUrl(monthly, i)
             /\ (monthly.fetched # <<>> /\ monthly.pc = "loop")
                   => last.url = monthly.fetched[Len(monthly.fetched)]
    /\ (monthly.pc = "done" /\ monthly.result.tag = "DataArray")
          => /\ Len(monthly.fetched) = N
             /\ monthly.result.series =
                  Flatten([d \in 1..N |->
                      Slabs(VarAtLevel(OpenDataset(files, DayFilename(monthly, d)).ds,
                                       monthly.level))])
             /\ \A i \in 1..Len(monthly.result.series) :
                   \A j \in 1..Len(monthly.result.series) :
                      i < j => monthly.result.series[i].time
                                  < monthly.result.series[j].time

(* An aggregation of the leap February that returned its 29 days.          *)
C5_Witness ==
    /\ monthly.pc = "done"
    /\ monthly.result.tag = "DataArray"
    /\ monthly.year = 2024
    /\ Len(monthly.result.series) = 29

(* C6: when the fetch of a day fails, the aggregation is over: it ends     *)
(* with that fetch's error, without a series, and the failed fetch is the  *)
(* last one it issued (until another aggregation is started).              *)
C6_DayFailureAborts ==
    (last.fn = "open_or_download_era5" /\ IsError(last.result))
       => \/ monthly.pc = "loop" /\ monthly.fetched = <<>>
          \/ /\ monthly.pc = "done"
             /\ monthly.result = [tag |-> last.result.tag, series |-> NoSeries]
             /\ monthly.fetched # <<>>
             /\ monthly.fetched[Len(monthly.fetched)] = last.url
             /\ Len(monthly.fetched) = Len(monthly.daily_data) + 1

(* An aggregation aborted in the middle of the month.                      *)
C6_Witness ==
    /\ monthly.pc = "done"
    /\ IsError(last.result)
    /\ Len(monthly.fetched) > 2
    /\ Len(monthly.fetched) < LastDay(monthly.year, monthly.month)

(* C7, as stated: an aggregation in which every fetch issued failed ends   *)
(* with the "failed to load any daily files" error of line 260.            *)
C7_TotalFailureNoData ==
    (monthly.pc = "done" /\ monthly.fetched # <<>> /\ monthly.daily_data = <<>>)
       => monthly.result.tag = "ValueError"

(***************************************************************************)
(* get_era5_url (lines 123-154)                                            *)
(***************************************************************************)

(* calendar.monthrange(year, month): IllegalMonthError unless 1 <= month   *)
(* <= 12, else the number of days of the month.                            *)
MonthRange(year, month) ==
    IF month \in 1..12
    THEN [tag |-> "ok", last_day |-> LastDay(year, month)]
    ELSE [tag |-> "IllegalMonthError", last_day |-> 0]

(* A derivation that folds the month into 1..12 instead of rejecting it.  *)
get_era5_url_wrapped(base_url, year, month, file_code) ==
    LET yyyymm == Str(year) \o Fmt02(month)
        last_day == LastDay(year, ((month + 11) % 12) + 1)
    IN  [tag |-> "str",
         value |-> base_url \o <<"/">> \o yyyymm \o <<"/">>
                   \o <<"e5.oper.an.sfc.", file_code, ".ll025sc.">>
                   \o yyyymm \o <<"0100_">> \o yyyymm \o Fmt02(last_day)
                   \o <<"23.nc">>]

get_era5_url(base_url, year, month, file_code) ==
    LET yyyymm == Str(year) \o Fmt02(month)
        mr == MonthRange(year, month)
    IN  IF mr.tag # "ok" THEN [tag |-> mr.tag, value |-> <<>>]
        ELSE LET filename ==
                     <<"e5.oper.an.sfc.", file_code, ".ll025sc.">>
                     \o yyyymm \o <<"0100_">> \o yyyymm
                     \o Fmt02(mr.last_day) \o <<"23.nc">>
             IN  [tag |-> "str",
                  value |-> base_url \o <<"/">> \o yyyymm \o <<"/">>
                            \o filename]

UrlBases == {ServerS, BaseUrl}

UrlYears == {1900, 2000, 2023, 2024, 2100}

UrlMonths == 0..13

UrlFileCodes == {"128_059_cape", "128_167_2t"}

GetEra5Url ==
    \E base_url \in UrlBases, year \in UrlYears, month \in UrlMonths,
       file_code \in UrlFileCodes :
        LET r == get_era5_url(base_url, year, month, file_code) IN
        /\ derived' = [fn |-> "get_era5_url",
                       args |-> <<base_url, year, month, file_code>>,
                       tag |-> r.tag, value |-> r.value]
        /\ UNCHANGED <<files, last, monthly, procs, writer>>

(***************************************************************************)
(* The file name open_or_download_gz derives from the URL (lines 106-107)  *)
(***************************************************************************)

MaxSegLen == 4

SegChars == {"a", ".", "g", "z"}

Segments == UNION {[1..n -> SegChars] : n \in 0..MaxSegLen}

DeriveGzFilename ==
    \E seg \in Segments :
        LET url == ServerS \o <<"/">> \o seg IN
        /\ derived' = [fn |-> "gz_filename", args |-> <<url>>,
                       tag |-> "str", value |-> GzFilename(url, NoName)]
        /\ UNCHANGED <<files, last, monthly, procs, writer>>

NextPure == GetEra5Url \/ DeriveGzFilename

SpecPure == Init /\ [][NextPure]_vars

(***************************************************************************)
(* Properties of the derivations                                           *)
(***************************************************************************)

RECURSIVE NumVal(_)
(* The number a sequence of decimal digits denotes.                        *)
NumVal(digs) ==
    IF digs = <<>> THEN 0
    ELSE 10 * NumVal(SubSeq(digs, 1, Len(digs) - 1))
         + DigitVal(digs[Len(digs)])

(* The last day of a month by the Gregorian calendar.                      *)
CalendarLastDay(year, month) ==
    CASE month \in {4, 6, 9, 11} -> 30
      [] month = 2 ->
            IF year % 400 = 0 \/ (year % 4 = 0 /\ year % 100 # 0)
            THEN 29 ELSE 28
      [] OTHER -> 31

IsDigits(s) == \A i \in 1..Len(s) : \E d \in 1..10 : Digits[d] = s[i]

(* value = <base_url>/<YYYYMM>/e5.oper.an.sfc.<file_code>.ll025sc.         *)
(*         <YYYYMM>0100_<YYYYMM><dd>23.nc with dd the two digits of day.   *)
HasSfcShape(value, base_url, year, month, file_code, day) ==
    LET n == Len(base_url)
        ym == SubSeq(value, n + 2, n + 7)
    IN  /\ Len(value) = n + 27
        /\ SubSeq(value, 1, n) = base_url
        /\ value[n + 1] = "/"
        /\ IsDigits(ym) /\ NumVal(ym) = 100 * year + month
        /\ value[n + 8] = "/"
        /\ SubSeq(value, n + 9, n + 11)
               = <<"e5.oper.an.sfc.", file_code, ".ll025sc.">>
        /\ SubSeq(value, n + 12, n + 17) = ym
        /\ value[n + 18] = "0100_"
        /\ SubSeq(value, n + 19, n + 24) = ym
        /\ IsDigits(SubSeq(value, n + 25, n + 26))
        /\ NumVal(SubSeq(value, n + 25, n + 26)) = day
        /\ value[n + 27] = "23.nc"

(* C11: for a month in 1..12, get_era5_url returns exactly                 *)
(* <base_url>/<YYYYMM>/e5.oper.an.sfc.<file_code>.ll025sc.<YYYYMM>0100_    *)
(* <YYYYMM><lastday>23.nc, lastday being the last calendar day of the      *)
(* month, leap years included (31 for 2024-05, 29 for 2024-02, 28 for      *)
(* 2023-02); the derivation requests nothing and leaves the cache alone.   *)
C11_UrlDerivation ==
    (derived.fn = "get_era5_url" /\ derived.args[3] \in 1..12) =>
        LET base_url == derived.args[1]
            year == derived.args[2]
            month == derived.args[3]
            file_code == derived.args[4]
        IN  /\ derived.tag = "str"
            /\ HasSfcShape(derived.value, base_url, year, month, file_code,
                           CalendarLastDay(year, month))
            /\ (year = 2024 /\ month = 5) =>
                   SubSeq(derived.value, Len(base_url) + 19,
                          Len(base_url) + 26)
                       = <<"2", "0", "2", "4", "0", "5", "3", "1">>
            /\ (year = 2024 /\ month = 2) =>
                   SubSeq(derived.value, Len(base_url) + 19,
                          Len(base_url) + 26)
                       = <<"2", "0", "2", "4", "0", "2", "2", "9">>
            /\ (year = 2023 /\ month = 2) =>
                   SubSeq(derived.value, Len(base_url) + 19,
                          Len(base_url) + 26)
                       = <<"2", "0", "2", "3", "0", "2", "2", "8">>
            /\ files = <<>> /\ last = NoCall

C11_Witness ==
    /\ derived.fn = "get_era5_url"
    /\ derived.args[2] = 2100 /\ derived.args[3] = 2
    /\ derived.tag = "str"
    /\ SubSeq(derived.value, Len(derived.args[1]) + 25,
              Len(derived.args[1]) + 26) = <<"2", "8">>

(* C12: for a month outside 1..12 (13, 0) get_era5_url fails with the      *)
(* invalid-month error of the calendar and returns no URL.                 *)
C12_InvalidMonth ==
    (derived.fn = "get_era5_url" /\ derived.args[3] \notin 1..12) =>
        /\ derived.tag = "IllegalMonthError"
        /\ derived.value = <<>>

C12_Witness ==
    /\ derived.fn = "get_era5_url"
    /\ derived.args[3] = 0
    /\ derived.tag = "IllegalMonthError"

(* The segment with one trailing ".gz" taken off, every other character    *)
(* kept.                                                                   *)
StripGzExtension(seg) ==
    IF EndsWith(seg, GzSuffix) THEN SubSeq(seg, 1, Len(seg) - Len(GzSuffix))
    ELSE seg

(* C16: without a name override, the cache key of open_or_download_gz is    *)
(* the last URL segment with only a trailing ".gz" stripped: every other   *)
(* character, an earlier ".gz" inside the segment included, is kept, and a *)
(* segment without a trailing ".gz" is used as it is.                      *)
C16_OnlyTrailingGzStripped ==
    derived.fn = "gz_filename" =>
        derived.value = StripGzExtension(LastSegment(derived.args[1]))

(***************************************************************************)
(* Parse failures, empty subsets and the hit branch                        *)
(***************************************************************************)

ParseErrors == {"EmptyDataError", "ParserError", "UnicodeDecodeError"}

(* The number of fields of a line: one more than its commas.               *)
FieldCount(line) == 1 + Cardinality({i \in 1..Len(line) : line[i] = 44})

(* Text a CSV reader accepts: plain characters, at least one line that is  *)
(* not blank, and after the first data row no row wider than the header    *)
(* and the first data row.                                                 *)
WellFormedCsv(bytes) ==
    LET lines == SelectSeq(SplitOn(bytes, 10), LAMBDA l : Len(l) > 0) IN
    /\ \A i \in 1..Len(bytes) : bytes[i] < 128
    /\ Len(lines) >= 1
    /\ \A i \in 3..Len(lines) :
           \/ FieldCount(lines[i]) <= FieldCount(lines[1])
           \/ FieldCount(lines[i]) <= FieldCount(lines[2])

(* The bytes read_csv parses for a cached file: its content, taken out of  *)
(* the gzip container when the file name ends in ".gz".                    *)
ParseInput(fs, key) ==
    IF EndsWith(key, GzSuffix) THEN GzipDecompress(fs[key]) ELSE fs[key]

EmptySel(ds) == ds.latitude = <<>> \/ ds.longitude = <<>> \/ ds.time = <<>>

RequestedSubset(c) ==
    Subset(RemoteDs(c.url), c.box.lat_min, c.box.lat_max,
           c.box.lon_min, c.box.lon_max, c.box.hour)

(* C14, as stated: on a miss whose remote open succeeds, when the bounds   *)
(* or the hour select no element along some dimension, the gridded fetcher *)
(* fails with SubsetError and neither returns nor caches an artifact.      *)
C14_EmptySubsetFails ==
    (/\ last.fn = "open_or_download_era5"
     /\ ~last.hit
     /\ last.result.tag # "OSError"
     /\ EmptySel(RequestedSubset(last)))
       => /\ last.result.tag = "SubsetError"
          /\ last.key \notin DOMAIN files

(* C14, amended: on a miss whose remote open succeeds, when the bounds or  *)
(* the hour select no element along some dimension, the gridded fetcher    *)
(* raises nothing: it returns the empty subset and caches it under the     *)
(* file name.                                                              *)
C14_EmptySubsetReturnedAndCached ==
    (/\ last.fn = "open_or_download_era5"
     /\ ~last.hit
     /\ last.result.tag # "OSError"
     /\ EmptySel(RequestedSubset(last)))
       => /\ last.result = ReturnDs(RequestedSubset(last))
          /\ last.key \in DOMAIN files
          /\ files[last.key] = ToNetcdf(RequestedSubset(last))

(* A miss that returned and cached a dataset without any latitude.         *)
C14_Witness ==
    /\ last.fn = "open_or_download_era5"
    /\ ~last.hit
    /\ last.result.tag = "Dataset"
    /\ last.result.ds.latitude = <<>>
    /\ last.result.ds.longitude # <<>>
    /\ last.key \in DOMAIN files

(* The bytes a miss of a tabular fetcher writes for a response.            *)
Written(fn, resp) ==
    IF fn = "open_or_download_gz" THEN GzipDecompress(resp.content)
    ELSE resp.content

(* C18: a miss of a tabular fetcher whose download (and decompression)      *)
(* succeeds writes the bytes before it parses them, so the file is there   *)
(* also when parsing fails; a file that cannot be read stays as it is, and *)
(* a later call of a tabular fetcher for its key is a hit that fails with  *)
(* the error of reading that file, without a network request.              *)
C18_CachePoisoning ==
    [][IsCallStep =>
         /\ (/\ last'.fn \in TabFns
             /\ ~last'.hit
             /\ ~IsHttpError(last'.resp)
             /\ last'.fn = "open_or_download_gz" => IsGzip(last'.resp.content))
               => /\ last'.key \in DOMAIN files'
                  /\ files'[last'.key] = Written(last'.fn, last'.resp)
                  /\ last'.result = ReadCsv(files', last'.key)
         /\ \A k \in DOMAIN files :
               IsError(ReadCsv(files, k))
                 => /\ k \in DOMAIN files'
                    /\ files'[k] = files[k]
                    /\ (last'.fn \in TabFns /\ last'.key = k)
                          => /\ last'.hit
                             /\ last'.net = 0
                             /\ last'.result = ReadCsv(files, k)
                             /\ (last.fn \in TabFns /\ last.key = k)
                                   => last'.result = last.result]_vars

(* A hit that failed on the file an earlier miss left behind, right after  *)
(* a call for the same key that failed the same way.                       *)
C18_Witness ==
    /\ last.fn \in TabFns
    /\ last.rep
    /\ last.hit
    /\ last.key \in DOMAIN files
    /\ last.result.tag \in ParseErrors

(* C20: starting from an empty cache directory, a call takes the hit       *)
(* branch only if an earlier call wrote a file under the same key, also    *)
(* for a URL whose last segment is empty.                                  *)
C20_HitImpliesPriorWrite ==
    (last.fn \in FetchFns /\ last.hit) => last.key \in DOMAIN files

(***************************************************************************)
(* Level selection of the monthly aggregation                              *)
(***************************************************************************)

(* The dataset the fetch of day i handed to the loop: the cached file.     *)
DayDataset(m, i) == OpenDataset(files, DayFilename(m, i)).ds

(* C17: for every day fetched, the aggregation collects exactly one slice; *)
(* when the day's dataset has a level dimension the slice is the variable  *)
(* at the available level with the least absolute difference from the      *)
(* requested one and has no level dimension left, otherwise it is the      *)
(* variable as it is.                                                      *)
C17_LevelSelection ==
    monthly.pc # "idle" =>
        /\ monthly.pc = "loop" =>
               /\ Len(monthly.daily_data) = monthly.day - 1
               /\ Len(monthly.fetched) = monthly.day - 1
        /\ (monthly.pc = "done" /\ monthly.result.tag = "DataArray") =>
               Len(monthly.daily_data) = Len(monthly.fetched)
        /\ \A i \in 1..Len(monthly.daily_data) :
               LET ds == DayDataset(monthly, i)
                   slice == monthly.daily_data[i]
               IN  /\ slice.time = ds.time
                   /\ slice.latitude = ds.latitude
                   /\ slice.longitude = ds.longitude
                   /\ IF ds.hasLevel
                      THEN /\ Len(slice.level) = 1
                           /\ \E j \in 1..Len(ds.level) :
                                  slice.level[1] = ds.level[j]
                           /\ \A j \in 1..Len(ds.level) :
                                  Abs(slice.level[1] - monthly.level)
                                      <= Abs(ds.level[j] - monthly.level)
                      ELSE slice.level = <<>>

(* Level 650 asked of files with the levels 500 and 700: the slices are at *)
(* 700.                                                                    *)
C17_Witness ==
    /\ monthly.pc = "loop"
    /\ monthly.level = 650
    /\ Len(monthly.daily_data) >= 2
    /\ DayDataset(monthly, 2).hasLevel
    /\ monthly.daily_data[2].level = <<700>>

(***************************************************************************)
(* One process calling all four fetch entry points in any order            *)
(***************************************************************************)

MixName == <<"a">>

MixTabUrls == {UrlA, UrlAgz}

MixYear == 2024

MixMonth == 2

MixLevel == 500

MixEra5Urls == {DailyUrl(BaseUrl, FileCode, GridCode, MixYear, MixMonth, 1), UrlA}

(* open_or_download(url, local_name='a'): two URLs stored under one name.  *)
MixOpenOrDownload ==
    \E url \in MixTabUrls :
      \E resp \in Responses(url) :
        LET out == open_or_download(files, url, MixName, resp) IN
        /\ monthly.pc # "loop"
        /\ files' = out.files
        /\ last' = Call("open_or_download", url, MixName, NoBox,
                        IF out.net = 1 THEN resp ELSE NoResp, out)
        /\ UNCHANGED <<monthly, aux>>

(* open_or_download_gz('h://s/a.gz'), whose derived name is 'a' as well.   *)
MixOpenOrDownloadGz ==
    \E resp \in Responses(UrlAgz) :
        LET out == open_or_download_gz(files, UrlAgz, NoName, resp) IN
        /\ monthly.pc # "loop"
        /\ files' = out.files
        /\ last' = Call("open_or_download_gz", UrlAgz, NoName, NoBox,
                        IF out.net = 1 THEN resp ELSE NoResp, out)
        /\ UNCHANGED <<monthly, aux>>

(* open_or_download_era5 called directly for the first daily file of the   *)
(* month the aggregation reads, and for the URL of the table.              *)
MixOpenOrDownloadEra5 ==
    \E url \in MixEra5Urls, box \in Boxes :
      \E remote \in Remotes(url) :
        LET out == open_or_download_era5(files, url, box.lat_min, box.lat_max,
                                         box.lon_min, box.lon_max, box.hour, remote)
        IN
        /\ monthly.pc # "loop"
        /\ files' = out.files
        /\ last' = Call("open_or_download_era5", url, NoName, box, NoResp, out)
        /\ UNCHANGED <<monthly, aux>>

MixMonthlyStart ==
    /\ monthly.pc # "loop"
    /\ monthly' = [Idle EXCEPT !.pc = "loop", !.year = MixYear,
                               !.month = MixMonth, !.level = MixLevel,
                               !.day = 1]
    /\ UNCHANGED <<files, last, aux>>

NextMix ==
    \/ MixOpenOrDownload
    \/ MixOpenOrDownloadGz
    \/ MixOpenOrDownloadEra5
    \/ MixMonthlyStart
    \/ MonthlyDay
    \/ MonthlyReturn

SpecMix == Init /\ [][NextMix]_vars

(* C19: in any sequence of fetch calls of one process, a call writes at    *)
(* most one file and only under a key that has no file yet, so each key is *)
(* written at most once; a file that exists is never changed and never     *)
(* removed.                                                                *)
C19_WriteOnce ==
    [][/\ \A k \in DOMAIN files : k \in DOMAIN files' /\ files'[k] = files[k]
       /\ files' # files =>
             /\ IsCallStep
             /\ ~last'.hit
             /\ last'.key \notin DOMAIN files
             /\ DOMAIN files' = DOMAIN files \cup {last'.key}]_vars

(* After a whole aggregation, a tabular call for another URL under the     *)
(* same name is served the table stored first.                             *)
C19_Witness ==
    /\ monthly.pc = "done"
    /\ monthly.result.tag = "DataArray"
    /\ last.fn = "open_or_download"
    /\ last.url = UrlAgz
    /\ last.hit
    /\ MixName \in DOMAIN files
    /\ files[MixName] = CsvA

(***************************************************************************)
(* Two processes sharing the cache directory.  Each runs one call of a     *)
(* tabular fetcher, a statement at a time; no statement takes a lock.      *)
(* Path.write_bytes is open(mode='wb'), which creates or truncates the     *)
(* file, followed by a write at the start of the file; the two are         *)
(* separate steps, and another process may run between them.               *)
(***************************************************************************)

RaceRequests ==
    {[fn |-> "open_or_download", url |-> UrlA, local_name |-> MixName],
     [fn |-> "open_or_download", url |-> UrlDir, local_name |-> MixName],
     [fn |-> "open_or_download_gz", url |-> UrlAgz, local_name |-> NoName]}

(* The file after write() of body at offset 0 through a descriptor opened *)
(* before: the body, then whatever the file held beyond the body's length. *)
Overwrite_append(old, body) == old \o body

Overwrite(old, body) == body \o SubSeq(old, Len(body) + 1, Len(old))

(* lines 57-58, 106-107: the file name is resolved.                        *)
RaceEnter(p) ==
    /\ procs[p].pc = "idle"
    /\ \E req \in RaceRequests :
         procs' = [procs EXCEPT ![p] =
                     [@ EXCEPT !.pc = "check", !.fn = req.fn, !.url = req.url,
                               !.key = IF req.fn = "open_or_download"
                                       THEN TabFilename(req.url, req.local_name)
                                       ELSE GzFilename(req.url, req.local_name)]]
    /\ UNCHANGED <<files, last, monthly, derived, writer>>

(* lines 60, 109: local_path.exists()                                      *)
RaceCheck(p) ==
    /\ procs[p].pc = "check"
    /\ procs' = [procs EXCEPT ![p] =
                   IF Exists(files, procs[p].key)
                   THEN [@ EXCEPT !.pc = "read", !.hit = TRUE]
                   ELSE [@ EXCEPT !.pc = "fetch"]]
    /\ UNCHANGED <<files, last, monthly, derived, writer>>

(* lines 65-66, 114-117: the request, the status check, the decompression. *)
RaceFetch(p) ==
    /\ procs[p].pc = "fetch"
    /\ \E resp \in Responses(procs[p].url) :
         procs' = [procs EXCEPT ![p] =
                     IF IsHttpError(resp)
                     THEN [@ EXCEPT !.pc = "done", !.net = 1,
                                    !.result = Raise("HTTPError")]
                     ELSE IF procs[p].fn = "open_or_download_gz" /\ ~IsGzip(resp.content)
                     THEN [@ EXCEPT !.pc = "done", !.net = 1,
                                    !.result = Raise("BadGzipFile")]
                     ELSE [@ EXCEPT !.pc = "open", !.net = 1,
                                    !.body = Written(procs[p].fn, resp)]]
    /\ UNCHANGED <<files, last, monthly, derived, writer>>

(* lines 67, 118, first half: open(local_path, 'wb').                      *)
RaceOpen(p) ==
    /\ procs[p].pc = "open"
    /\ files' = WriteBytes(files, procs[p].key, <<>>)
    /\ procs' = [procs EXCEPT ![p] = [@ EXCEPT !.pc = "write"]]
    /\ UNCHANGED <<last, monthly, derived, writer>>

(* lines 67, 118, second half: write(data) and close.                      *)
RaceWrite(p) ==
    /\ procs[p].pc = "write"
    /\ files' = WriteBytes(files, procs[p].key,
                           Overwrite(files[procs[p].key], procs[p].body))
    /\ writer' = [k \in DOMAIN writer \cup {procs[p].key} |->
                    IF k = procs[p].key THEN p ELSE writer[k]]
    /\ procs' = [procs EXCEPT ![p] = [@ EXCEPT !.pc = "read", !.wrote = TRUE]]
    /\ UNCHANGED <<last, monthly, derived>>

(* lines 62, 68, 111, 120: pd.read_csv(local_path)                         *)
RaceRead(p) ==
    /\ procs[p].pc = "read"
    /\ procs' = [procs EXCEPT ![p] =
                   [@ EXCEPT !.pc = "done",
                             !.result = ReadCsv(files, procs[p].key)]]
    /\ UNCHANGED <<files, last, monthly, derived, writer>>

NextRace ==
    \E p \in Procs :
        \/ RaceEnter(p)
        \/ RaceCheck(p)
        \/ RaceFetch(p)
        \/ RaceOpen(p)
        \/ RaceWrite(p)
        \/ RaceRead(p)

SpecRace == Init /\ [][NextRace]_vars

(* Both processes have finished a call for one key that each of them found *)
(* missing.                                                                *)
BothMissed ==
    /\ \A p \in Procs : procs[p].pc = "done" /\ ~procs[p].hit
    /\ \A p \in Procs : \A q \in Procs : procs[p].key = procs[q].key

Other(p) == CHOOSE q \in Procs : q # p

(* C15, as stated: when two processes both find one key missing, each of   *)
(* them issues its request, and once both have written and finished, the   *)
(* file holds the content of the process that wrote last.                  *)
C15_LastWriterWins ==
    BothMissed =>
        /\ \A p \in Procs : procs[p].net = 1
        /\ (\A p \in Procs : procs[p].wrote) =>
               files[procs[1].key] = procs[writer[procs[1].key]].body

(* C15, amended: when two processes both find one key missing, each of     *)
(* them issues its request; once both have written and finished, the file  *)
(* starts with the content of the process that wrote last, and it is       *)
(* exactly that content unless the other process wrote a longer content    *)
(* after the last writer had opened the file: then the other's bytes       *)
(* beyond the last writer's length follow.                                 *)
C15_LastWriterOverlays ==
    BothMissed =>
        /\ \A p \in Procs : procs[p].net = 1
        /\ (\A p \in Procs : procs[p].wrote) =>
               LET key == procs[1].key
                   w == writer[key]
                   mine == procs[w].body
                   theirs == procs[Other(w)].body
               IN  \/ files[key] = mine
                   \/ /\ Len(theirs) > Len(mine)
                      /\ files[key]
                           = mine \o SubSeq(theirs, Len(mine) + 1, Len(theirs))

(* Both found the key missing, both requested and wrote different content, *)
(* and the file holds what the last writer wrote.                          *)
C15_Witness ==
    /\ BothMissed
    /\ \A p \in Procs : procs[p].net = 1 /\ procs[p].wrote
    /\ procs[1].body # procs[2].body
    /\ procs[1].body # <<>> /\ procs[2].body # <<>>
    /\ files[procs[1].key] = procs[writer[procs[1].key]].body

=============================================================================
